---- MODULE Spec2Model ----
(***************************************************************************)
(* A model of treelog's abstract Log (treelog/abc.py) and of the record /  *)
(* replay engine RecordLog (treelog/rec.py).                               *)
(*                                                                         *)
(* A driver program uses one RecordLog through Log.context and             *)
(* RecordLog.open scopes (strictly nested, as Python's with statement      *)
(* makes them), writes messages and file bytes, may raise inside a scope,  *)
(* and may replay the recording onto a capturing backend.  Next to the     *)
(* RecordLog the model keeps what a capturing backend driven directly by   *)
(* the same calls observes.                                                *)
(***************************************************************************)
EXTENDS Integers, Sequences, FiniteSets, TLC

VARIABLES
  messages,   \* RecordLog._messages: the recorded commands
  seen,       \* RecordLog._seen: id -> data of the first completed open
  scopes,     \* the driver's open with-blocks, innermost last
  exc,        \* the exception propagating through the driver, or NoExc
  direct,     \* what a capturing backend driven by the same calls observed
  pure,       \* only pushcontext/popcontext were called so far
  rstate,     \* replay: "idle", "running", "done" (returned), "failed"
              \* (raised on an exit without its scope), "collected" (the
              \* scopes it left open are being finalized)
  rkind,      \* replay: the log it is called on, "capture" (a capturing
              \* backend), "record" (another RecordLog) or "self"
  tmessages,  \* replay: _messages of the RecordLog that is the target
  tseen,      \* replay: _seen of the RecordLog that is the target
  rpos,       \* replay: index in messages of the next command
  contexts,   \* replay: the local stack `contexts`
  target,     \* replay: what the capturing target backend observed
  replayed,   \* a replay has completed since the recording last changed
  first,      \* what the target of the first such replay observed
  cg,         \* the ClosingGenerator of Log.iter: "none", "open" (_gen is a
              \* generator) or "closed" (_gen is None)
  frame,      \* the frame of the generator Log.iter made
  calls,      \* the pushcontext/popcontext calls Log.iter made on its log
  results,    \* what each __next__ gave: an element, or Stop
  closes,     \* what each call of close returned, as a truth value
  final,      \* "alive", or how __del__ went: "warned" or "quiet"
  method,     \* the call of a leveled method that was made, if any
  issued      \* the write and open calls the leveled methods made

rec == <<messages, seen>>
drv == <<scopes, exc, direct, pure>>
rep == <<rstate, rpos, contexts, target, replayed, first,
        rkind, tmessages, tseen>>
itr == <<cg, frame, calls, results, closes, final>>
lev == <<method, issued>>
vars == <<messages, seen, scopes, exc, direct, pure,
          rstate, rpos, contexts, target, replayed, first,
          rkind, tmessages, tseen,
          cg, frame, calls, results, closes, final, method, issued>>

----------------------------------------------------------------------------
(* Bounds of the model. *)

MaxMsgs == 5      \* recorded commands
MaxDepth == 2     \* open with-blocks of the driver
MaxTrace == MaxMsgs   \* operations of one session, collapsed contexts too
MaxData == 1      \* bytes written to one file
MaxItems == 3     \* elements of the iterable given to Log.iter
MaxNexts == 5     \* __next__ calls on one ClosingGenerator
MaxCloses == 3    \* close calls on one ClosingGenerator
MaxArgs == 2      \* positional arguments of one leveled print
MaxSelf == 8      \* commands of a RecordLog that is replayed onto itself

(* Inputs of the calls. *)

Titles == {"build"}
Texts == {"start"}
Levels == {1}                 \* among debug=0 .. error=4
Filenames == {"out.txt"}
Modes == {"w"}
Bytes == {"d"}
NoneId == "None"                 \* id=None
EmptyId == ""                    \* an empty, falsy id
Ids == {NoneId, EmptyId, "X"}
ReplayedIds == {NoneId, "X"}     \* the ids of the sessions that are replayed
NoExc == "NoExc"
Exceptions == {"E1", "E2"}

(* Python values.  `data` is None or a bytes/str object. *)

None == [isNone |-> TRUE, val |-> <<>>]
Some(b) == [isNone |-> FALSE, val |-> b]
Truthy(id) == id \notin {NoneId, EmptyId}      \* `if id:`

----------------------------------------------------------------------------
(* Recorded commands: the tuples (cmd, *args) of RecordLog._messages, as   *)
(* records whose unused fields hold a fixed filler.                        *)

Cmd(c, t, l, f, m, i, d) ==
  [cmd |-> c, text |-> t, level |-> l, filename |-> f, mode |-> m,
   id |-> i, data |-> d]

context_enter(title) == Cmd("context_enter", title, 0, "", "", NoneId, None)
context_exit == Cmd("context_exit", "", 0, "", "", NoneId, None)
open_enter(f, m, l, i) == Cmd("open_enter", "", l, f, m, i, None)
open_exit(d) == Cmd("open_exit", "", 0, "", "", NoneId, d)
write(text, l) == Cmd("write", text, l, "", "", NoneId, None)

Last(s) == s[Len(s)]
Front(s) == SubSeq(s, 1, Len(s) - 1)

----------------------------------------------------------------------------
(* What a capturing backend observes: one record per operation.  A "close" *)
(* carries the whole content the file holds when it is closed.  In the     *)
(* driver's own trace a close also notes how RecordLog treated the scope   *)
(* (id, how, kept); a backend never sees those.                            *)

Obs(o, t, l, f, m, i, b, h, k) ==
  [op |-> o, text |-> t, level |-> l, filename |-> f, mode |-> m, id |-> i,
   bytes |-> b, how |-> h, kept |-> k]

ObsPush(title) == Obs("pushcontext", title, 0, "", "", NoneId, <<>>, "", <<>>)
ObsPop == Obs("popcontext", "", 0, "", "", NoneId, <<>>, "", <<>>)
ObsWrite(text, l) == Obs("write", text, l, "", "", NoneId, <<>>, "", <<>>)
ObsOpen(f, m, l, i) == Obs("open", "", l, f, m, i, <<>>, "", <<>>)
ObsFwrite(b) == Obs("fwrite", "", 0, "", "", NoneId, b, "", <<>>)
ObsClose(b) == Obs("close", "", 0, "", "", NoneId, b, "", <<>>)
ObsCloseNoted(i, b, h, k) == Obs("close", "", 0, "", "", i, b, h, k)

----------------------------------------------------------------------------
(* The file resources of treelog._io that RecordLog.open hands out.        *)

TempfileWrite(buf, b) == Append(buf, b)     \* a real temporary buffer
TempfileRead(buf) == buf                    \* f.seek(0); f.read()
DevnullWrite(buf, b) == buf                 \* a sink that discards

----------------------------------------------------------------------------
(* RecordLog: the recording methods.                                       *)

pushcontext(msgs, title) == Append(msgs, context_enter(title))

(* a popcontext that forgets to look at what the last command is *)
popcontext_blind(msgs) ==
  IF msgs # <<>> THEN Front(msgs) ELSE Append(msgs, context_exit)

(* a popcontext without the collapse rule *)
popcontext_plain(msgs) == Append(msgs, context_exit)

popcontext(msgs) ==
  IF msgs # <<>> /\ Last(msgs).cmd = "context_enter"
  THEN Front(msgs)
  ELSE Append(msgs, context_exit)

rec_write(msgs, text, level) == Append(msgs, write(text, level))

SeenGet(sn, id) == IF id \in DOMAIN sn THEN Some(sn[id]) ELSE None

SeenSet(sn, id, b) ==
  [i \in DOMAIN sn \cup {id} |-> IF i = id THEN b ELSE sn[i]]

(* open, up to the yield: the scope it leaves suspended.  `data` is the    *)
(* local of that name, `f` the content of the resource yielded, `sent`     *)
(* what the caller wrote to the resource.                                  *)
OpenScope(sn, id) ==
  LET data == SeenGet(sn, id)
  IN [kind |-> "file", id |-> id, devnull |-> ~data.isNone, data |-> data,
      f |-> <<>>, sent |-> <<>>, before |-> <<>>]

(* Log.context, up to the yield; `before` remembers the recording as it    *)
(* was when the context was entered                                        *)
ContextScope(msgs) ==
  [kind |-> "context", id |-> NoneId, devnull |-> FALSE, data |-> None,
   f |-> <<>>, sent |-> <<>>, before |-> msgs]

(* f.write(b) on the resource of scope sc *)
ResourceWrite(sc, b) ==
  [sc EXCEPT !.f = IF sc.devnull THEN DevnullWrite(@, b)
                                 ELSE TempfileWrite(@, b),
             !.sent = Append(@, b)]

(* an open that never reads the temporary file back *)
OpenData_unread(sc, raised) == sc.data

(* open, from the yield on: the value of `data` when the finally clause    *)
(* runs.  When the block raised, the statements after the yield are        *)
(* skipped and data is still what _seen.get returned.                      *)
OpenData(sc, raised) ==
  IF sc.devnull \/ raised THEN sc.data ELSE Some(TempfileRead(sc.f))

(* the seen-cache when open has returned *)
OpenSeen(sn, sc, raised) ==
  IF ~sc.devnull /\ ~raised /\ Truthy(sc.id)
  THEN SeenSet(sn, sc.id, TempfileRead(sc.f))
  ELSE sn

(* an open whose exit record is not in a finally clause *)
OpenFinally_unprotected(msgs, sc, raised) ==
  IF raised THEN msgs ELSE Append(msgs, open_exit(OpenData(sc, raised)))

(* the finally clause of open *)
OpenFinally(msgs, sc, raised) == Append(msgs, open_exit(OpenData(sc, raised)))

----------------------------------------------------------------------------
(* The driver: a program that uses the RecordLog.                          *)

Depth == Len(scopes)
Idle == rstate # "running"
Room(n) ==
  /\ Len(messages) + Depth + n <= MaxMsgs
  /\ Len(direct) + Depth + n <= MaxTrace

(* a call on the RecordLog ends what is remembered of earlier replays *)
Changed == /\ rstate' = "idle"
           /\ rpos' = 0
           /\ contexts' = <<>>
           /\ target' = <<>>
           /\ replayed' = FALSE
           /\ first' = <<>>
           /\ rkind' = "capture"
           /\ tmessages' = <<>>
           /\ tseen' = <<>>
           /\ UNCHANGED <<itr, lev>>

(* with log.context(title): -- Log.context up to its yield *)
ContextEnter(title) ==
  /\ Idle /\ exc = NoExc /\ Depth < MaxDepth /\ Room(2)
  /\ messages' = pushcontext(messages, title)
  /\ scopes' = Append(scopes, ContextScope(messages))
  /\ direct' = Append(direct, ObsPush(title))
  /\ UNCHANGED <<seen, exc, pure>>
  /\ Changed

(* leaving the block of log.context, normally or by an exception: the      *)
(* finally clause of Log.context                                           *)
ContextExit ==
  /\ Idle /\ Depth > 0 /\ Last(scopes).kind = "context"
  /\ messages' = popcontext(messages)
  /\ scopes' = Front(scopes)
  /\ direct' = Append(direct, ObsPop)
  /\ UNCHANGED <<seen, exc, pure>>
  /\ Changed

(* log.write(text, level) *)
LogWrite(text, level) ==
  /\ Idle /\ exc = NoExc /\ Room(1)
  /\ messages' = rec_write(messages, text, level)
  /\ direct' = Append(direct, ObsWrite(text, level))
  /\ pure' = FALSE
  /\ UNCHANGED <<seen, scopes, exc>>
  /\ Changed

(* with log.open(filename, mode, level, id) as f: *)
OpenEnter(filename, mode, level, id) ==
  /\ Idle /\ exc = NoExc /\ Depth < MaxDepth /\ Room(2)
  /\ messages' = Append(messages, open_enter(filename, mode, level, id))
  /\ scopes' = Append(scopes, OpenScope(seen, id))
  /\ direct' = Append(direct, ObsOpen(filename, mode, level, id))
  /\ pure' = FALSE
  /\ UNCHANGED <<seen, exc>>
  /\ Changed

(* f.write(b) on any file the driver holds open *)
FileWrite(k, b) ==
  /\ Idle /\ exc = NoExc
  /\ k \in 1..Depth /\ scopes[k].kind = "file"
  /\ Len(scopes[k].sent) < MaxData
  /\ scopes' = [scopes EXCEPT ![k] = ResourceWrite(@, b)]
  /\ UNCHANGED <<messages, seen, exc, direct, pure>>
  /\ Changed

(* leaving the block of log.open, normally or by an exception *)
OpenExit ==
  /\ Idle /\ Depth > 0 /\ Last(scopes).kind = "file"
  /\ LET sc == Last(scopes)
         raised == exc # NoExc
     IN /\ seen' = OpenSeen(seen, sc, raised)
        /\ messages' = OpenFinally(messages, sc, raised)
        /\ direct' = Append(direct,
             ObsCloseNoted(sc.id, sc.sent,
               IF sc.devnull THEN "cached"
               ELSE IF raised THEN "raised" ELSE "plain",
               IF sc.devnull THEN sc.data.val ELSE <<>>))
  /\ scopes' = Front(scopes)
  /\ UNCHANGED <<exc, pure>>
  /\ Changed

(* the block of the innermost scope raises *)
Raise(e) ==
  /\ Idle /\ exc = NoExc /\ Depth > 0
  /\ exc' = e
  /\ UNCHANGED <<messages, seen, scopes, direct, pure>>
  /\ Changed

(* an except clause of the driver, around any of its scopes *)
Catch ==
  /\ Idle /\ exc # NoExc
  /\ exc' = NoExc
  /\ UNCHANGED <<messages, seen, scopes, direct, pure>>
  /\ Changed

----------------------------------------------------------------------------
(* RecordLog.replay onto a capturing backend `log`.                        *)

(* an entry of the local stack `contexts`: ctx for a context, (ctx, f) for *)
(* a file, f holding what was written to the target's file resource        *)
ReplayContext == [kind |-> "context", f |-> <<>>]
ReplayFile == [kind |-> "file", f |-> <<>>]

(* the open_exit branch without the write of the recorded data *)
ReplayOpenExit_nodata(ctxs, tgt, c) ==
  [contexts |-> Front(ctxs),
   target |-> Append(tgt, ObsClose(Last(ctxs).f)), ok |-> TRUE]

(* the open_exit branch writing whatever the command carries *)
ReplayOpenExit_blind(ctxs, tgt, c) ==
  [contexts |-> Front(ctxs),
   target |-> tgt \o <<ObsFwrite(c.data.val),
                       ObsClose(Last(ctxs).f \o c.data.val)>>,
   ok |-> TRUE]

(* the open_exit branch, the pair (ctx, f) being on top of the stack:      *)
(* f.write(data) unless data is None, then ctx.__exit__                    *)
ReplayOpenExit(ctxs, tgt, c) ==
  [contexts |-> Front(ctxs),
   target |->
     IF ~c.data.isNone
     THEN tgt \o <<ObsFwrite(c.data.val),
                   ObsClose(Last(ctxs).f \o c.data.val)>>
     ELSE Append(tgt, ObsClose(Last(ctxs).f)),
   ok |-> TRUE]

(* an exit whose scope is not on top of the stack, taken as done *)
ReplayUnderflow_skipped(ctxs, tgt) ==
  [contexts |-> ctxs, target |-> tgt, ok |-> TRUE]

(* an exit whose scope is not on top of the stack: contexts.pop() raises   *)
(* IndexError on the empty stack; otherwise it pops what is there and the  *)
(* use of it as a context, or as a pair (ctx, f), raises                   *)
ReplayUnderflow(ctxs, tgt) ==
  [contexts |-> IF ctxs = <<>> THEN ctxs ELSE Front(ctxs),
   target |-> tgt, ok |-> FALSE]

(* the body of the for loop for one command: the stack and the target's    *)
(* observation after it, and whether it ran without raising                *)
ReplayCmd(ctxs, tgt, c) ==
  CASE c.cmd = "context_enter" ->
         [contexts |-> Append(ctxs, ReplayContext),
          target |-> Append(tgt, ObsPush(c.text)), ok |-> TRUE]
    [] c.cmd = "context_exit" ->
         IF ctxs # <<>> /\ Last(ctxs).kind = "context"
         THEN [contexts |-> Front(ctxs),
               target |-> Append(tgt, ObsPop), ok |-> TRUE]
         ELSE ReplayUnderflow(ctxs, tgt)
    [] c.cmd = "open_enter" ->
         [contexts |-> Append(ctxs, ReplayFile),
          target |-> Append(tgt, ObsOpen(c.filename, c.mode, c.level, c.id)),
          ok |-> TRUE]
    [] c.cmd = "open_exit" ->
         IF ctxs # <<>> /\ Last(ctxs).kind = "file"
         THEN ReplayOpenExit(ctxs, tgt, c)
         ELSE ReplayUnderflow(ctxs, tgt)
    [] c.cmd = "write" ->
         [contexts |-> ctxs,
          target |-> Append(tgt, ObsWrite(c.text, c.level)), ok |-> TRUE]

(* record.replay(log) is called on a fresh capturing backend *)
ReplayStart ==
  /\ Idle /\ exc = NoExc
  /\ rstate' = "running"
  /\ rpos' = 1
  /\ contexts' = <<>>
  /\ target' = <<>>
  /\ rkind' = "capture"
  /\ tmessages' = <<>>
  /\ tseen' = <<>>
  /\ UNCHANGED <<replayed, first>>
  /\ UNCHANGED <<messages, seen, scopes, exc, direct, pure>>
  /\ UNCHANGED <<itr, lev>>

(* a replay that consumes the commands it has issued *)
ReplayStep_consuming ==
  /\ rstate = "running" /\ rkind = "capture" /\ rpos <= Len(messages)
  /\ LET r == ReplayCmd(contexts, target, messages[rpos])
     IN /\ contexts' = r.contexts
        /\ target' = r.target
        /\ rstate' = IF r.ok THEN "running" ELSE "failed"
  /\ messages' = Tail(messages)
  /\ UNCHANGED <<rpos, replayed, first, rkind, tmessages, tseen>>
  /\ UNCHANGED <<seen, scopes, exc, direct, pure>>
  /\ UNCHANGED <<itr, lev>>

(* one iteration of the for loop *)
ReplayStep ==
  /\ rstate = "running" /\ rkind = "capture" /\ rpos <= Len(messages)
  /\ LET r == ReplayCmd(contexts, target, messages[rpos])
     IN /\ contexts' = r.contexts
        /\ target' = r.target
        /\ rstate' = IF r.ok THEN "running" ELSE "failed"
  /\ rpos' = rpos + 1
  /\ UNCHANGED <<replayed, first, rkind, tmessages, tseen>>
  /\ UNCHANGED <<messages, seen, scopes, exc, direct, pure>>
  /\ UNCHANGED <<itr, lev>>

(* a replay that leaves, on its return, every scope that is still open *)
ReplayReturn_closing ==
  /\ rstate = "running" /\ rkind = "capture" /\ rpos > Len(messages)
  /\ rstate' = "done"
  /\ replayed' = TRUE
  /\ first' = IF replayed THEN first ELSE target
  /\ contexts' = <<>>
  /\ target' = target \o
       [k \in 1..Len(contexts) |->
          IF contexts[Len(contexts) + 1 - k].kind = "context"
          THEN ObsPop ELSE ObsClose(contexts[Len(contexts) + 1 - k].f)]
  /\ UNCHANGED <<rpos, rkind, tmessages, tseen>>
  /\ UNCHANGED <<messages, seen, scopes, exc, direct, pure>>
  /\ UNCHANGED <<itr, lev>>

(* the for loop is exhausted: replay returns *)
ReplayReturn ==
  /\ rstate = "running" /\ rkind = "capture" /\ rpos > Len(messages)
  /\ rstate' = "done"
  /\ replayed' = TRUE
  /\ first' = IF replayed THEN first ELSE target
  /\ UNCHANGED <<rpos, contexts, target, rkind, tmessages, tseen>>
  /\ UNCHANGED <<messages, seen, scopes, exc, direct, pure>>
  /\ UNCHANGED <<itr, lev>>

(* a sequence without its k-th element *)
Without(sq, k) == SubSeq(sq, 1, k - 1) \o SubSeq(sq, k + 1, Len(sq))

(* a replay that writes nothing of the recorded data into the file *)
ResourceWriteAll_dropped(sc, bytes) == sc

(* f.write(data) of replay on the resource of scope sc of a RecordLog: the *)
(* bytes of data, one after the other                                      *)
RECURSIVE ResourceWriteAll(_, _)
ResourceWriteAll(sc, bytes) ==
  IF bytes = <<>> THEN sc
  ELSE ResourceWriteAll(ResourceWrite(sc, Head(bytes)), Tail(bytes))

(* the body of the for loop for one command when log is a RecordLog with   *)
(* the command sequence msgs and the seen-cache sn: the stack, the         *)
(* sequence and the cache after it, and whether it ran without raising     *)
OntoCmd(ctxs, msgs, sn, c) ==
  CASE c.cmd = "context_enter" ->
         [contexts |-> Append(ctxs, ContextScope(msgs)),
          messages |-> pushcontext(msgs, c.text), seen |-> sn, ok |-> TRUE]
    [] c.cmd = "context_exit" ->
         IF ctxs # <<>> /\ Last(ctxs).kind = "context"
         THEN [contexts |-> Front(ctxs),
               messages |-> popcontext(msgs), seen |-> sn, ok |-> TRUE]
         ELSE [contexts |-> IF ctxs = <<>> THEN ctxs ELSE Front(ctxs),
               messages |-> msgs, seen |-> sn, ok |-> FALSE]
    [] c.cmd = "open_enter" ->
         [contexts |-> Append(ctxs, OpenScope(sn, c.id)),
          messages |->
            Append(msgs, open_enter(c.filename, c.mode, c.level, c.id)),
          seen |-> sn, ok |-> TRUE]
    [] c.cmd = "open_exit" ->
         IF ctxs # <<>> /\ Last(ctxs).kind = "file"
         THEN LET sc == IF c.data.isNone THEN Last(ctxs)
                        ELSE ResourceWriteAll(Last(ctxs), c.data.val)
              IN [contexts |-> Front(ctxs),
                  messages |-> OpenFinally(msgs, sc, FALSE),
                  seen |-> OpenSeen(sn, sc, FALSE), ok |-> TRUE]
         ELSE [contexts |-> IF ctxs = <<>> THEN ctxs ELSE Front(ctxs),
               messages |-> msgs, seen |-> sn, ok |-> FALSE]
    [] c.cmd = "write" ->
         [contexts |-> ctxs, messages |-> rec_write(msgs, c.text, c.level),
          seen |-> sn, ok |-> TRUE]

(* record.replay(log) is called on a fresh RecordLog *)
OntoStart ==
  /\ Idle /\ exc = NoExc
  /\ rstate' = "running"
  /\ rkind' = "record"
  /\ rpos' = 1
  /\ contexts' = <<>>
  /\ target' = <<>>
  /\ tmessages' = <<>>
  /\ tseen' = <<>>
  /\ UNCHANGED <<replayed, first>>
  /\ UNCHANGED <<messages, seen, scopes, exc, direct, pure>>
  /\ UNCHANGED <<itr, lev>>

(* one iteration of the for loop, log being the other RecordLog *)
OntoStep ==
  /\ rstate = "running" /\ rkind = "record" /\ rpos <= Len(messages)
  /\ LET r == OntoCmd(contexts, tmessages, tseen, messages[rpos])
     IN /\ contexts' = r.contexts
        /\ tmessages' = r.messages
        /\ tseen' = r.seen
        /\ rstate' = IF r.ok THEN "running" ELSE "failed"
  /\ rpos' = rpos + 1
  /\ UNCHANGED <<target, replayed, first, rkind>>
  /\ UNCHANGED <<messages, seen, scopes, exc, direct, pure>>
  /\ UNCHANGED <<itr, lev>>

(* the for loop is exhausted: replay onto the other RecordLog returns *)
OntoReturn ==
  /\ rstate = "running" /\ rkind = "record" /\ rpos > Len(messages)
  /\ rstate' = "done"
  /\ UNCHANGED <<rpos, contexts, target, replayed, first,
                 rkind, tmessages, tseen>>
  /\ UNCHANGED <<messages, seen, scopes, exc, direct, pure>>
  /\ UNCHANGED <<itr, lev>>

(* record.replay(record) *)
SelfStart ==
  /\ Idle /\ exc = NoExc
  /\ rstate' = "running"
  /\ rkind' = "self"
  /\ rpos' = 1
  /\ contexts' = <<>>
  /\ target' = <<>>
  /\ tmessages' = <<>>
  /\ tseen' = <<>>
  /\ UNCHANGED <<replayed, first>>
  /\ UNCHANGED <<messages, seen, scopes, exc, direct, pure>>
  /\ UNCHANGED <<itr, lev>>

(* a replay onto itself that records on a RecordLog of its own instead *)
SelfStep_apart ==
  /\ rstate = "running" /\ rkind = "self" /\ rpos <= Len(messages)
  /\ Len(messages) < MaxSelf
  /\ LET r == OntoCmd(contexts, tmessages, tseen, messages[rpos])
     IN /\ contexts' = r.contexts
        /\ tmessages' = r.messages
        /\ tseen' = r.seen
        /\ rstate' = IF r.ok THEN "running" ELSE "failed"
  /\ rpos' = rpos + 1
  /\ UNCHANGED <<target, replayed, first, rkind, messages, seen>>
  /\ UNCHANGED <<scopes, exc, direct, pure>>
  /\ UNCHANGED <<itr, lev>>

(* one iteration of the for loop, log being the RecordLog itself: the loop *)
(* reads the list that the calls on log append to                          *)
SelfStep ==
  /\ rstate = "running" /\ rkind = "self" /\ rpos <= Len(messages)
  /\ Len(messages) < MaxSelf
  /\ LET r == OntoCmd(contexts, messages, seen, messages[rpos])
     IN /\ contexts' = r.contexts
        /\ messages' = r.messages
        /\ seen' = r.seen
        /\ rstate' = IF r.ok THEN "running" ELSE "failed"
  /\ rpos' = rpos + 1
  /\ UNCHANGED <<target, replayed, first, rkind, tmessages, tseen>>
  /\ UNCHANGED <<scopes, exc, direct, pure>>
  /\ UNCHANGED <<itr, lev>>

(* the for loop over the RecordLog's own list is exhausted *)
SelfReturn ==
  /\ rstate = "running" /\ rkind = "self" /\ rpos > Len(messages)
  /\ rstate' = "done"
  /\ UNCHANGED <<rpos, contexts, target, replayed, first,
                 rkind, tmessages, tseen>>
  /\ UNCHANGED <<messages, seen, scopes, exc, direct, pure>>
  /\ UNCHANGED <<itr, lev>>

(* After replay has returned or raised, its local list `contexts` is       *)
(* unreachable.  The runtime may finalize, at any time and in any order,   *)
(* the generators of the context managers it holds: GeneratorExit is       *)
(* raised at their yield and their finally clauses run on the target.      *)
ReplayCollect ==
  /\ rstate \in {"done", "failed", "collected"}
  /\ \E k \in 1..Len(contexts) :
       LET sc == contexts[k]
       IN /\ contexts' = Without(contexts, k)
          /\ CASE rkind = "capture" ->
                    /\ target' = Append(target,
                         IF sc.kind = "context" THEN ObsPop
                                                ELSE ObsClose(sc.f))
                    /\ UNCHANGED <<messages, seen, tmessages, tseen>>
               [] rkind = "record" ->
                    /\ tmessages' = IF sc.kind = "context"
                                    THEN popcontext(tmessages)
                                    ELSE OpenFinally(tmessages, sc, TRUE)
                    /\ tseen' = IF sc.kind = "context" THEN tseen
                                ELSE OpenSeen(tseen, sc, TRUE)
                    /\ UNCHANGED <<messages, seen, target>>
               [] rkind = "self" ->
                    /\ messages' = IF sc.kind = "context"
                                   THEN popcontext(messages)
                                   ELSE OpenFinally(messages, sc, TRUE)
                    /\ seen' = IF sc.kind = "context" THEN seen
                               ELSE OpenSeen(seen, sc, TRUE)
                    /\ UNCHANGED <<target, tmessages, tseen>>
  /\ rstate' = "collected"
  /\ UNCHANGED <<rpos, replayed, first, rkind>>
  /\ UNCHANGED <<scopes, exc, direct, pure>>
  /\ UNCHANGED <<itr, lev>>

(* log.pushcontext(title), called outside any with-statement *)
RawPush(title) ==
  /\ Idle /\ exc = NoExc /\ Room(1)
  /\ messages' = pushcontext(messages, title)
  /\ direct' = Append(direct, ObsPush(title))
  /\ UNCHANGED <<seen, scopes, exc, pure>>
  /\ Changed

(* log.popcontext(), called outside any with-statement *)
RawPop ==
  /\ Idle /\ exc = NoExc /\ Room(1)
  /\ messages' = popcontext(messages)
  /\ direct' = Append(direct, ObsPop)
  /\ UNCHANGED <<seen, scopes, exc, pure>>
  /\ Changed

----------------------------------------------------------------------------
(* Log.iter and the ClosingGenerator around it, on a log that notes the    *)
(* pushcontext and popcontext calls it gets.                               *)

Stop == -1          \* StopIteration
NoLength == -1      \* length=None
NoPct == -1         \* a title without a percentage

IterTitles == {"item"}

(* '{:.0f}'.format(100 * (i+.5) / length): to the nearest integer, a half  *)
(* to the even one                                                         *)
Pct(i, length) ==
  LET num == 100 * (2 * i + 1)
      den == 2 * length
      q == num \div den
      r == num % den
  IN IF 2 * r < den THEN q
     ELSE IF 2 * r > den THEN q + 1
     ELSE IF q % 2 = 0 THEN q ELSE q + 1

(* text = '{} {}'.format(title, i), with ' (p%)' when length is truthy *)
Text(title, i, length) ==
  [title |-> title, i |-> i,
   pct |-> IF length # NoLength /\ length # 0 THEN Pct(i, length) ELSE NoPct]

CallPush(text) == [op |-> "pushcontext", text |-> text]
CallPop == [op |-> "popcontext", text |-> Text("", 0, NoLength)]

NoFrame ==
  [pc |-> "none", title |-> "", n |-> 0, sized |-> FALSE,
   length |-> NoLength, i |-> 0, left |-> 0]

(* the generator object Log.iter(title, iterable, length) returns: nothing *)
(* of its body has run.  The iterable has n elements, 0 .. n-1, and has a  *)
(* len() when sized.                                                       *)
NewFrame(title, n, sized, length) ==
  [pc |-> "unstarted", title |-> title, n |-> n, sized |-> sized,
   length |-> length, i |-> 0, left |-> n]

(* the body of the while loop from its top to the yield or the return *)
IterLoop(fr, cs) ==
  LET pushed == Append(cs, CallPush(Text(fr.title, fr.i, fr.length)))
  IN IF fr.left > 0
     THEN [frame |-> [fr EXCEPT !.pc = "yielded", !.left = @ - 1],
           calls |-> pushed, out |-> fr.i]
     ELSE [frame |-> [fr EXCEPT !.pc = "finished"],
           calls |-> Append(pushed, CallPop), out |-> Stop]

(* next(gen) on a generator that is not finished *)
GenNext(fr, cs) ==
  IF fr.pc = "unstarted"
  THEN IterLoop([fr EXCEPT !.length =
                   IF @ = NoLength /\ fr.sized THEN fr.n ELSE @], cs)
  ELSE IterLoop([fr EXCEPT !.i = @ + 1], Append(cs, CallPop))

(* a close that drops the generator without closing it *)
GenClose_dropped(fr, cs) ==
  [frame |-> [fr EXCEPT !.pc = "finished"], calls |-> cs]

(* gen.close(): GeneratorExit is raised at the yield, if the generator is  *)
(* suspended at it, and the finally clause runs                            *)
GenClose(fr, cs) ==
  [frame |-> [fr EXCEPT !.pc = "finished"],
   calls |-> IF fr.pc = "yielded" THEN Append(cs, CallPop) ELSE cs]

(* log.iter(title, iterable, length) *)
IterCall(title, n, sized, length) ==
  /\ cg = "none"
  /\ cg' = "open"
  /\ frame' = NewFrame(title, n, sized, length)
  /\ UNCHANGED <<calls, results, closes, final>>
  /\ UNCHANGED <<rec, drv, rep, lev>>

(* ClosingGenerator.__next__ *)
IterNext ==
  /\ cg # "none" /\ final = "alive" /\ Len(results) < MaxNexts
  /\ IF cg = "closed"
     THEN /\ results' = Append(results, Stop)
          /\ UNCHANGED <<cg, frame, calls>>
     ELSE LET r == GenNext(frame, calls)
          IN /\ frame' = r.frame
             /\ calls' = r.calls
             /\ results' = Append(results, r.out)
             /\ cg' = IF r.out = Stop THEN "closed" ELSE "open"
  /\ UNCHANGED <<closes, final>>
  /\ UNCHANGED <<rec, drv, rep, lev>>

(* a close that leaves _gen as it is *)
CgClose_kept(c, fr, cs) ==
  IF c = "open"
  THEN LET r == GenClose(fr, cs)
       IN [cg |-> c, frame |-> r.frame, calls |-> r.calls, ret |-> TRUE]
  ELSE [cg |-> c, frame |-> fr, calls |-> cs, ret |-> FALSE]

(* ClosingGenerator.close: with _gen set, closes it, clears _gen and       *)
(* returns True; else falls off its end and returns None                   *)
CgClose(c, fr, cs) ==
  IF c = "open"
  THEN LET r == GenClose(fr, cs)
       IN [cg |-> "closed", frame |-> r.frame, calls |-> r.calls,
           ret |-> TRUE]
  ELSE [cg |-> c, frame |-> fr, calls |-> cs, ret |-> FALSE]

(* a __del__ that warns whatever close returns *)
DelWarns_always(ret) == TRUE

(* Closing.__del__: if self.close(): warnings.warn(...) *)
DelWarns(ret) == ret

(* the consumer calls close() *)
IterClose ==
  /\ cg # "none" /\ final = "alive" /\ Len(closes) < MaxCloses
  /\ LET r == CgClose(cg, frame, calls)
     IN /\ cg' = r.cg
        /\ frame' = r.frame
        /\ calls' = r.calls
        /\ closes' = Append(closes, r.ret)
  /\ UNCHANGED <<results, final>>
  /\ UNCHANGED <<rec, drv, rep, lev>>

(* the consumer leaves the with-block of the generator: Closing.__exit__   *)
(* calls close() and drops what it returns                                 *)
IterExit ==
  /\ cg # "none" /\ final = "alive" /\ Len(closes) < MaxCloses
  /\ LET r == CgClose(cg, frame, calls)
     IN /\ cg' = r.cg
        /\ frame' = r.frame
        /\ calls' = r.calls
        /\ closes' = Append(closes, r.ret)
  /\ UNCHANGED <<results, final>>
  /\ UNCHANGED <<rec, drv, rep, lev>>

(* the ClosingGenerator is finalized: Closing.__del__ *)
IterDel ==
  /\ cg # "none" /\ final = "alive"
  /\ LET r == CgClose(cg, frame, calls)
     IN /\ cg' = r.cg
        /\ frame' = r.frame
        /\ calls' = r.calls
        /\ closes' = Append(closes, r.ret)
        /\ final' = IF DelWarns(r.ret) THEN "warned" ELSE "quiet"
  /\ UNCHANGED results
  /\ UNCHANGED <<rec, drv, rep, lev>>

----------------------------------------------------------------------------
(* The leveled methods that Log._factory makes.                            *)

(* a positional argument: a str, or an int that str() has to convert *)
StrArg(t) == [isStr |-> TRUE, s |-> t, n |-> 0]
IntArg(k) == [isStr |-> FALSE, s |-> "", n |-> k]
Values == {StrArg("a"), StrArg("b"), IntArg(12)}
Seps == {" ", "-"}
ArgLists == UNION {[1..k -> Values] : k \in 0..MaxArgs}

Digit(d) ==
  CASE d = 0 -> "0" [] d = 1 -> "1" [] d = 2 -> "2" [] d = 3 -> "3"
    [] d = 4 -> "4" [] d = 5 -> "5" [] d = 6 -> "6" [] d = 7 -> "7"
    [] d = 8 -> "8" [] d = 9 -> "9"

RECURSIVE Decimal(_)
Decimal(k) == IF k < 10 THEN Digit(k) ELSE Decimal(k \div 10) \o Digit(k % 10)

(* str(arg) *)
Str(v) == IF v.isStr THEN v.s ELSE Decimal(v.n)

(* map(str, args) *)
MapStr(args) == [k \in 1..Len(args) |-> Str(args[k])]

(* a join that forgets the separator *)
RECURSIVE Join_bare(_, _)
Join_bare(strs, sep) ==
  IF strs = <<>> THEN "" ELSE Head(strs) \o Join_bare(Tail(strs), sep)

(* sep.join(strs) *)
RECURSIVE Join(_, _)
Join(strs, sep) ==
  IF strs = <<>> THEN ""
  ELSE IF Len(strs) = 1 THEN strs[1]
  ELSE Head(strs) \o sep \o Join(Tail(strs), sep)

DefaultSep == " "       \* the default of sep in print
DefaultId == NoneId     \* the default of id in file

(* the print and the file that _factory(level) returns, as the call each   *)
(* makes on self                                                           *)
FactoryPrint(level, args, sep) == ObsWrite(Join(MapStr(args), sep), level)
FactoryFile(level, name, mode, id) == ObsOpen(name, mode, level, id)

(* the class attributes bound to the results of _factory *)
Bindings == [debug |-> 0, info |-> 1, user |-> 2, warning |-> 3, error |-> 4]
Names == DOMAIN Bindings

NoMethod ==
  [kind |-> "none", name |-> "", args |-> <<>>, hasSep |-> FALSE, sep |-> "",
   filename |-> "", mode |-> "", hasId |-> FALSE, id |-> NoneId]

(* log.<name>(a, b) or log.<name>(a, b, sep=sep) *)
LeveledPrint(name, args, hasSep, sep) ==
  /\ method' = [NoMethod EXCEPT !.kind = "print", !.name = name,
                  !.args = args, !.hasSep = hasSep,
                  !.sep = IF hasSep THEN sep ELSE ""]
  /\ issued' = <<FactoryPrint(Bindings[name], args,
                              IF hasSep THEN sep ELSE DefaultSep)>>
  /\ UNCHANGED <<rec, drv, rep, itr>>

(* log.<name>file(filename, mode) or log.<name>file(filename, mode, id=id) *)
LeveledFile(name, filename, mode, hasId, id) ==
  /\ method' = [NoMethod EXCEPT !.kind = "file", !.name = name,
                  !.filename = filename, !.mode = mode, !.hasId = hasId,
                  !.id = IF hasId THEN id ELSE NoneId]
  /\ issued' = <<FactoryFile(Bindings[name], filename, mode,
                             IF hasId THEN id ELSE DefaultId)>>
  /\ UNCHANGED <<rec, drv, rep, itr>>

----------------------------------------------------------------------------
(* The nesting of a command sequence: the kinds of its unmatched enters,   *)
(* outermost first, and whether every exit met an enter of its own kind.   *)

RECURSIVE Scan(_, _, _)
Scan(msgs, i, st) ==
  IF i > Len(msgs) THEN [ok |-> TRUE, open |-> st]
  ELSE LET c == msgs[i].cmd
       IN CASE c = "context_enter" -> Scan(msgs, i + 1, Append(st, "context"))
            [] c = "open_enter" -> Scan(msgs, i + 1, Append(st, "file"))
            [] c = "context_exit" ->
                 IF st # <<>> /\ Last(st) = "context"
                 THEN Scan(msgs, i + 1, Front(st))
                 ELSE [ok |-> FALSE, open |-> st]
            [] c = "open_exit" ->
                 IF st # <<>> /\ Last(st) = "file"
                 THEN Scan(msgs, i + 1, Front(st))
                 ELSE [ok |-> FALSE, open |-> st]
            [] OTHER -> Scan(msgs, i + 1, st)

Nesting(msgs) == Scan(msgs, 1, <<>>)
WellNested(msgs) == Nesting(msgs).ok
Unmatched(msgs) == Nesting(msgs).open

Kinds(st) == [k \in 1..Len(st) |-> st[k].kind]
Count(msgs, c) == Cardinality({k \in 1..Len(msgs) : msgs[k].cmd = c})

----------------------------------------------------------------------------
Init ==
  /\ messages = <<>>
  /\ seen = <<>>
  /\ scopes = <<>>
  /\ exc = NoExc
  /\ direct = <<>>
  /\ pure = TRUE
  /\ rstate = "idle"
  /\ rkind = "capture"
  /\ tmessages = <<>>
  /\ tseen = <<>>
  /\ rpos = 0
  /\ contexts = <<>>
  /\ target = <<>>
  /\ replayed = FALSE
  /\ first = <<>>
  /\ cg = "none"
  /\ frame = NoFrame
  /\ calls = <<>>
  /\ results = <<>>
  /\ closes = <<>>
  /\ final = "alive"
  /\ method = NoMethod
  /\ issued = <<>>

(* A session on a RecordLog, replayed any number of times at any point. *)
Next ==
  \/ \E title \in Titles : ContextEnter(title)
  \/ ContextExit
  \/ \E text \in Texts, level \in Levels : LogWrite(text, level)
  \/ \E filename \in Filenames, mode \in Modes, level \in Levels,
        id \in ReplayedIds :
       OpenEnter(filename, mode, level, id)
  \/ \E k \in 1..MaxDepth, b \in Bytes : FileWrite(k, b)
  \/ OpenExit
  \/ \E e \in Exceptions : Raise(e)
  \/ Catch
  \/ ReplayStart
  \/ ReplayStep
  \/ ReplayReturn
  \/ ReplayCollect

Spec == Init /\ [][Next]_vars

(* A session on a RecordLog that is not replayed, with every kind of id. *)
NextRec ==
  \/ \E title \in Titles : ContextEnter(title)
  \/ ContextExit
  \/ \E text \in Texts, level \in Levels : LogWrite(text, level)
  \/ \E filename \in Filenames, mode \in Modes, level \in Levels, id \in Ids :
       OpenEnter(filename, mode, level, id)
  \/ \E k \in 1..MaxDepth, b \in Bytes : FileWrite(k, b)
  \/ OpenExit
  \/ \E e \in Exceptions : Raise(e)
  \/ Catch

SpecRec == Init /\ [][NextRec]_vars

(* A consumer of Log.iter. *)
NextIter ==
  \/ \E title \in IterTitles, n \in 0..MaxItems, sized \in BOOLEAN,
        length \in {NoLength, 0, 2} :
       IterCall(title, n, sized, length)
  \/ IterNext
  \/ IterClose
  \/ IterExit
  \/ IterDel

SpecIter == Init /\ [][NextIter]_vars

(* A session on a RecordLog, replayed onto fresh RecordLogs. *)
NextFix ==
  \/ \E title \in Titles : ContextEnter(title)
  \/ ContextExit
  \/ \E text \in Texts, level \in Levels : LogWrite(text, level)
  \/ \E filename \in Filenames, mode \in Modes, level \in Levels,
        id \in ReplayedIds :
       OpenEnter(filename, mode, level, id)
  \/ \E k \in 1..MaxDepth, b \in Bytes : FileWrite(k, b)
  \/ OpenExit
  \/ \E e \in Exceptions : Raise(e)
  \/ Catch
  \/ OntoStart
  \/ OntoStep
  \/ OntoReturn
  \/ ReplayCollect

SpecFix == Init /\ [][NextFix]_vars

(* Calls on a RecordLog in any order, its with-statements for files        *)
(* nested, replayed onto capturing backends.                               *)
NextRaw ==
  \/ \E title \in Titles : RawPush(title)
  \/ RawPop
  \/ \E text \in Texts, level \in Levels : LogWrite(text, level)
  \/ \E filename \in Filenames, mode \in Modes, level \in Levels,
        id \in ReplayedIds :
       OpenEnter(filename, mode, level, id)
  \/ \E k \in 1..MaxDepth, b \in Bytes : FileWrite(k, b)
  \/ OpenExit
  \/ ReplayStart
  \/ ReplayStep
  \/ ReplayReturn
  \/ ReplayCollect

SpecRaw == Init /\ [][NextRaw]_vars

(* Calls on a RecordLog in any order, replayed onto capturing backends and *)
(* onto itself.                                                            *)
NextSelf ==
  \/ \E title \in Titles : RawPush(title)
  \/ RawPop
  \/ \E text \in Texts, level \in Levels : LogWrite(text, level)
  \/ \E filename \in Filenames, mode \in Modes, level \in Levels :
       OpenEnter(filename, mode, level, "X")
  \/ OpenExit
  \/ ReplayStart
  \/ ReplayStep
  \/ ReplayReturn
  \/ SelfStart
  \/ SelfStep
  \/ SelfReturn
  \/ ReplayCollect

(* the for loop of a replay that is running goes on *)
SpecSelf ==
  Init /\ [][NextSelf]_vars /\ WF_vars(ReplayStep) /\ WF_vars(ReplayReturn)

(* Calls of the leveled methods. *)
NextLeveled ==
  \/ \E name \in Names, args \in ArgLists, sep \in Seps :
       \/ LeveledPrint(name, args, FALSE, sep)
       \/ LeveledPrint(name, args, TRUE, sep)
  \/ \E name \in Names, filename \in Filenames, mode \in {"w", "wb"},
        id \in Ids :
       \/ LeveledFile(name, filename, mode, FALSE, id)
       \/ LeveledFile(name, filename, mode, TRUE, id)

SpecLeveled == Init /\ [][NextLeveled]_vars

----------------------------------------------------------------------------
(* Helpers of the claims.                                                  *)

IsOpenExit(c) == c.cmd = "open_exit"
IsClose(e) == e.op = "close"
NotFwrite(e) == e.op # "fwrite"
OpenExits(msgs) == SelectSeq(msgs, IsOpenExit)
Closes(tr) == SelectSeq(tr, IsClose)

(* what a backend observed, file by file: the operations without the      *)
(* single write calls, each close carrying the content of its file         *)
Observed(tr) == SelectSeq(tr, NotFwrite)

(* the index of the open_exit that closes the open_enter at i, 0 if none   *)
RECURSIVE FindExit(_, _, _)
FindExit(msgs, k, d) ==
  IF k > Len(msgs) THEN 0
  ELSE IF msgs[k].cmd = "open_enter" THEN FindExit(msgs, k + 1, d + 1)
  ELSE IF msgs[k].cmd = "open_exit"
       THEN IF d = 0 THEN k ELSE FindExit(msgs, k + 1, d - 1)
  ELSE FindExit(msgs, k + 1, d)

ExitOf(msgs, i) == FindExit(msgs, i + 1, 0)

(* the rank of the open_exit at index k among the open_exits *)
ExitRank(msgs, k) == Len(OpenExits(SubSeq(msgs, 1, k)))

(* a trace without the contexts inside which nothing was observed *)
RECURSIVE DropEmpty(_, _, _)
DropEmpty(tr, i, out) ==
  IF i > Len(tr) THEN out
  ELSE IF tr[i].op = "popcontext" /\ out # <<>> /\ Last(out).op = "pushcontext"
       THEN DropEmpty(tr, i + 1, Front(out))
       ELSE DropEmpty(tr, i + 1, Append(out, tr[i]))

(* the target operations the claim C7 assigns to one command *)
Issued(c) ==
  CASE c.cmd = "context_enter" -> <<ObsPush(c.text)>>
    [] c.cmd = "context_exit" -> <<ObsPop>>
    [] c.cmd = "open_enter" -> <<ObsOpen(c.filename, c.mode, c.level, c.id)>>
    [] c.cmd = "write" -> <<ObsWrite(c.text, c.level)>>
    [] c.cmd = "open_exit" ->
         IF c.data.isNone THEN <<ObsClose(<<>>)>>
         ELSE <<ObsFwrite(c.data.val), ObsClose(c.data.val)>>

RECURSIVE IssuedAll(_)
IssuedAll(msgs) ==
  IF msgs = <<>> THEN <<>>
  ELSE IssuedAll(Front(msgs)) \o Issued(Last(msgs))

----------------------------------------------------------------------------
(* C3: the recorded sequence is well-nested in every state of a strictly   *)
(* nested session, its unmatched enters never outnumber the scopes the     *)
(* driver holds open, and with every scope closed its net depth is zero.   *)
C3_WellNested ==
  LET n == Nesting(messages)
  IN /\ n.ok
     /\ Len(n.open) <= Depth
     /\ (Depth = 0 => Len(n.open) = 0)

(* a balanced session that recorded both kinds of exit *)
C3_Witness ==
  /\ Depth = 0
  /\ Count(messages, "context_exit") > 0
  /\ Count(messages, "open_exit") > 0

(* what a step that leaves a context does to the recording *)
C4_PopStep ==
  (Depth > 0 /\ Last(scopes).kind = "context" /\ Len(scopes') = Depth - 1)
    => IF messages # <<>> /\ Last(messages).cmd = "context_enter"
       THEN /\ messages' = Front(messages)
            /\ (Len(messages) = Len(Last(scopes).before) + 1
                  => messages' = Last(scopes).before)
       ELSE messages' = Append(messages, context_exit)

(* C4: a popcontext that finds a context_enter last removes it and leaves  *)
(* the sequence as it was before the push; any other popcontext appends    *)
(* exactly one context_exit; a balanced session of pushcontext and         *)
(* popcontext calls alone records nothing.                                 *)
C4_Collapse ==
  /\ [][C4_PopStep]_vars
  /\ [](pure /\ Depth = 0 => messages = <<>>)

(* two nested empty contexts have been pushed and popped *)
C4_Witness ==
  /\ pure /\ Depth = 0 /\ messages = <<>>
  /\ Len(direct) >= 4

(* what a step that leaves a scope by an exception keeps *)
C5_ReleaseStep ==
  (exc # NoExc /\ Len(scopes') < Depth)
    => /\ exc' = exc
       /\ Count(messages', "write") = Count(messages, "write")

(* C5: when a block raises, every scope the exception leaves still runs    *)
(* its release step once, so the recording stays well-nested and is        *)
(* balanced once the exception is out of all scopes; the release steps     *)
(* leave the exception as it is and record no write.                       *)
C5_Release ==
  /\ [](exc # NoExc => /\ WellNested(messages)
                       /\ Unmatched(messages) = Kinds(scopes))
  /\ [][C5_ReleaseStep]_vars

(* an exception has left a file scope and the context around it *)
C5_Witness ==
  /\ exc # NoExc /\ Depth = 0
  /\ \E k \in 1..Len(direct) : direct[k].op = "close" /\ direct[k].how = "raised"
  /\ messages # <<>> /\ Last(messages).cmd = "context_exit"

(* C6 as claimed: when the block of a file scope with an uncached id       *)
(* raises after bytes were written, the open_exit record carries those     *)
(* bytes and a truthy id gets them into the seen-cache.                    *)
C6_CaptureOnRaise ==
  (/\ rstate = "idle" /\ direct # <<>>
   /\ Last(direct).op = "close" /\ Last(direct).how = "raised"
   /\ Last(direct).bytes # <<>>)
    => /\ Last(messages) = open_exit(Some(Last(direct).bytes))
       /\ (Truthy(Last(direct).id)
             => SeenGet(seen, Last(direct).id) = Some(Last(direct).bytes))

(* C9 as claimed: once the seen-cache holds bytes for an id, no step       *)
(* changes them.                                                           *)
C9_FirstWriterWins ==
  [][\A id \in DOMAIN seen : id \in DOMAIN seen' /\ seen'[id] = seen[id]]_vars

(* the commands at i and j record two completed opens with one truthy id *)
C2_SameId(i, j) ==
  /\ i < j
  /\ messages[i].cmd = "open_enter" /\ messages[j].cmd = "open_enter"
  /\ messages[i].id = messages[j].id /\ Truthy(messages[i].id)
  /\ ExitOf(messages, i) # 0 /\ ExitOf(messages, j) # 0

(* C2 as claimed: of two completed opens with the same truthy id the       *)
(* second was a discarding sink and its open_exit carries the bytes of     *)
(* the first, which are what the seen-cache holds for the id and what a    *)
(* replay writes into both files.                                          *)
C2_CachedById ==
  \A i, j \in 1..Len(messages) :
    C2_SameId(i, j) =>
      LET xi == ExitOf(messages, i)
          xj == ExitOf(messages, j)
          d == messages[xi].data
      IN /\ ~d.isNone
         /\ messages[xj].data = d
         /\ SeenGet(seen, messages[i].id) = d
         /\ Closes(direct)[ExitRank(messages, xj)].how = "cached"
         /\ (rstate = "done" =>
               /\ Closes(target)[ExitRank(messages, xi)].bytes = d.val
               /\ Closes(target)[ExitRank(messages, xj)].bytes = d.val)

(* a file opened with a cached id holds the cached bytes *)
KeepCached(e) == IF e.how = "cached" THEN e.kept ELSE e.bytes

(* and a file whose block raised holds nothing *)
KeepRecorded(e) ==
  IF e.how = "cached" THEN e.kept
  ELSE IF e.how = "raised" THEN <<>> ELSE e.bytes

(* what the direct backend observed, as a backend sees it, each file       *)
(* holding the bytes KeepCached, KeepRecorded give it                      *)
AsSeenCached(tr) ==
  [k \in 1..Len(tr) |->
     IF tr[k].op = "close" THEN ObsClose(KeepCached(tr[k])) ELSE tr[k]]

AsSeenRecorded(tr) ==
  [k \in 1..Len(tr) |->
     IF tr[k].op = "close" THEN ObsClose(KeepRecorded(tr[k])) ELSE tr[k]]

C7_ReplayOrder ==
  rstate \in {"running", "done"} =>
    /\ target = IssuedAll(SubSeq(messages, 1, rpos - 1))
    /\ Kinds(contexts) = Unmatched(SubSeq(messages, 1, rpos - 1))

(* the session pushcontext(build), write(start), open(out.txt) + data,     *)
(* popcontext has been replayed                                            *)
C7_Witness ==
  /\ rstate = "done"
  /\ target = <<ObsPush("build"), ObsWrite("start", 1),
                ObsOpen("out.txt", "w", 1, NoneId),
                ObsFwrite(<<"d">>), ObsClose(<<"d">>), ObsPop>>

(* C8: a replay onto another log changes neither the command sequence nor  *)
(* the seen-cache, and every replay of one recording makes its target      *)
(* observe the same operations.                                            *)
C8_ReplayReadOnly ==
  /\ [][rstate = "running" => UNCHANGED <<messages, seen>>]_vars
  /\ [](rstate = "done" => target = first)
  /\ [](rstate = "running" /\ replayed /\ rpos > Len(messages)
          => target = first)

(* a recording with a cached file is at the end of a further replay *)
C8_Witness ==
  /\ rstate = "running" /\ replayed /\ rpos > Len(messages)
  /\ Count(messages, "open_exit") > 0
  /\ seen # <<>>

(* The contexts the calls of Log.iter left open, outermost first. *)
RECURSIVE StillOpen(_)
StillOpen(cs) ==
  IF cs = <<>> THEN <<>>
  ELSE IF Last(cs).op = "pushcontext"
       THEN Append(StillOpen(Front(cs)), Last(cs).text)
       ELSE Front(StillOpen(Front(cs)))

(* C10: while the consumer holds element i, the one context of Log.iter    *)
(* that is open is the one titled "title i"; the calls alternate, every    *)
(* context popped before the next is pushed; a consumer that takes the     *)
(* first element and closes the generator leaves one push and one pop.     *)
C10_IterScoping ==
  /\ (cg = "open" /\ frame.pc = "yielded") =>
       /\ results # <<>> /\ Last(results) = frame.i
       /\ Len(StillOpen(calls)) = 1
       /\ StillOpen(calls)[1].title = frame.title
       /\ StillOpen(calls)[1].i = Last(results)
  /\ \A k \in 1..Len(calls) :
       /\ calls[k].op = IF k % 2 = 1 THEN "pushcontext" ELSE "popcontext"
       /\ (k % 2 = 1 => calls[k].text.i = (k - 1) \div 2)
  /\ (cg = "closed" /\ results = <<0>>) =>
       /\ Len(calls) = 2
       /\ calls[1].op = "pushcontext" /\ calls[1].text.i = 0
       /\ calls[2].op = "popcontext"

(* of three elements the consumer took the first and closed the generator *)
C10_Witness ==
  /\ cg = "closed" /\ results = <<0>> /\ frame.n = 3
  /\ Len(calls) = 2

(* C11 as claimed: Log.iter pushes a context for the indices 0 .. n-1 of   *)
(* its n elements only: none with index n at the end of the sequence, and  *)
(* none at all for an empty iterable.                                      *)
C11_NoTrailingContext ==
  \A k \in 1..Len(calls) :
    calls[k].op = "pushcontext" => calls[k].text.i < frame.n

(* The truth values in a sequence of returns. *)
Trues(rs) == {k \in 1..Len(rs) : rs[k]}
Stopped == \E k \in 1..Len(results) : results[k] = Stop

(* what one step does when it is a close, and when it is a __next__ on a   *)
(* resource that was closed or exhausted                                   *)
C12_CloseStep ==
  /\ (Len(closes') = Len(closes) + 1)
       => (Last(closes') <=> (closes = <<>> /\ ~Stopped /\ cg = "open"))
  /\ (cg = "closed" /\ Len(results') = Len(results) + 1)
       => (Last(results') = Stop /\ UNCHANGED <<frame, calls>>)

(* C12: close returns a true value at most once, and only on a resource    *)
(* that was neither closed nor exhausted before; after a close or after    *)
(* exhaustion every close returns a false value and every __next__ signals *)
(* the end of the sequence and leaves the wrapped generator alone.         *)
C12_CloseIdempotent ==
  /\ [](Cardinality(Trues(closes)) <= 1)
  /\ []((closes # <<>> \/ Stopped) => cg = "closed")
  /\ [][C12_CloseStep]_vars

(* a resource closed while it held an element was closed again and asked   *)
(* for a next element                                                      *)
C12_Witness ==
  /\ Len(closes) >= 2 /\ closes[1] /\ ~closes[2]
  /\ Len(results) >= 2 /\ results[1] = 0 /\ Last(results) = Stop
  /\ frame.n >= 2

(* what the step that finalizes the resource does *)
C13_DelStep ==
  (final = "alive" /\ final' # "alive")
    => (final' = "warned" <=> (cg = "open" /\ closes = <<>> /\ ~Stopped))

(* C13: finalization raises the warning exactly when the resource is still *)
(* open then, that is when it was neither closed, nor left through its     *)
(* scope, nor exhausted; and it ends without an error.                     *)
C13_LeakWarning ==
  /\ [][C13_DelStep]_vars
  /\ [](final \in {"alive", "warned", "quiet"})
  /\ [](final = "warned" => (Trues(closes) = {1} /\ Len(closes) = 1 /\ ~Stopped))
  /\ [](final = "quiet" => (~Last(closes) /\ (Len(closes) > 1 \/ Stopped)))

(* a resource that held an element was finalized open, and warned *)
C13_Witness ==
  /\ final = "warned" /\ results = <<0>>

(* C14 as claimed: the seen-cache has truthy ids for keys only, and an     *)
(* open with an absent or falsy id hands out a real capturing buffer,      *)
(* whatever was opened before, whose contents are the data of its own      *)
(* open_exit record.                                                       *)
C14_AbsentIdsNeverCached ==
  /\ \A id \in DOMAIN seen : Truthy(id)
  /\ \A k \in 1..Depth :
       (scopes[k].kind = "file" /\ ~Truthy(scopes[k].id))
         => (~scopes[k].devnull /\ scopes[k].f = scopes[k].sent)
  /\ (/\ direct # <<>> /\ Last(direct).op = "close"
      /\ ~Truthy(Last(direct).id))
       => Last(messages) = open_exit(Some(Last(direct).bytes))

(* The level the documentation gives each leveled method. *)
LevelOf(name) ==
  CASE name = "debug" -> 0 [] name = "info" -> 1 [] name = "user" -> 2
    [] name = "warning" -> 3 [] name = "error" -> 4

(* The strings of a tuple with sep between each two of them, built from    *)
(* the left.                                                               *)
RECURSIVE Joined(_, _, _, _)
Joined(strs, sep, k, acc) ==
  IF k > Len(strs) THEN acc
  ELSE Joined(strs, sep, k + 1,
              IF k = 1 THEN strs[1] ELSE acc \o sep \o strs[k])

(* C15: a leveled print issues exactly one write, of its arguments joined  *)
(* by sep (a space when not given) at the level of its name, debug 0 to    *)
(* error 4, so that warning(a, b) is write("a b", 3); a leveled file       *)
(* issues exactly one open(name, mode, level, id), id being None when not  *)
(* given.                                                                  *)
C15_Leveled ==
  /\ method.kind = "print" =>
       /\ Len(issued) = 1 /\ issued[1].op = "write"
       /\ issued[1].level = LevelOf(method.name)
       /\ issued[1].text =
            Joined(MapStr(method.args),
                   IF method.hasSep THEN method.sep ELSE " ", 1, "")
  /\ (/\ method.kind = "print" /\ method.name = "warning" /\ ~method.hasSep
      /\ method.args = <<StrArg("a"), StrArg("b")>>)
       => issued = <<ObsWrite("a b", 3)>>
  /\ method.kind = "file" =>
       /\ Len(issued) = 1 /\ issued[1].op = "open"
       /\ issued[1].filename = method.filename
       /\ issued[1].mode = method.mode
       /\ issued[1].level = LevelOf(method.name)
       /\ issued[1].id = IF method.hasId THEN method.id ELSE NoneId

(* warning("a", 12) was called, without sep *)
C15_Witness ==
  /\ method.kind = "print" /\ method.name = "warning" /\ ~method.hasSep
  /\ method.args = <<StrArg("a"), IntArg(12)>>
  /\ issued = <<ObsWrite("a 12", 3)>>

IsOpenEnter(c) == c.cmd = "open_enter"
IsOpen(e) == e.op = "open"
IsFwrite(e) == e.op = "fwrite"
HasData(c) == c.cmd = "open_exit" /\ ~c.data.isNone

(* the rank of the close at index k of a trace among its closes *)
CloseRank(tr, k) == Len(Closes(SubSeq(tr, 1, k)))

(* C17: replay opens a file on the target for each open_enter, with the    *)
(* recorded arguments, and closes it at the open_exit; it writes into the  *)
(* file exactly when the data of the open_exit is not None, so that an     *)
(* open_exit with None closes a file nothing was written to.               *)
C17_ReplayNoData ==
  rstate \in {"running", "done"} =>
    LET done == SubSeq(messages, 1, rpos - 1)
        enters == SelectSeq(done, IsOpenEnter)
        exits == OpenExits(done)
        opens == SelectSeq(target, IsOpen)
    IN /\ Len(opens) = Len(enters)
       /\ \A k \in 1..Len(opens) :
            opens[k] = ObsOpen(enters[k].filename, enters[k].mode,
                               enters[k].level, enters[k].id)
       /\ Len(Closes(target)) = Len(exits)
       /\ Len(SelectSeq(target, IsFwrite)) = Len(SelectSeq(done, HasData))
       /\ \A k \in 1..Len(target) :
            target[k].op = "close" =>
              LET e == exits[CloseRank(target, k)]
              IN IF e.data.isNone
                 THEN /\ target[k].bytes = <<>>
                      /\ k > 1 /\ target[k - 1].op # "fwrite"
                 ELSE /\ k > 1 /\ target[k - 1] = ObsFwrite(e.data.val)

(* a recording with open_exit(None) and an open_exit with data has been    *)
(* replayed to its end                                                     *)
C17_Witness ==
  /\ rstate = "done"
  /\ \E i, j \in 1..Len(messages) :
       /\ messages[i].cmd = "open_exit" /\ messages[i].data.isNone
       /\ messages[j].cmd = "open_exit" /\ ~messages[j].data.isNone
  /\ \E k \in 1..Len(target) : target[k] = ObsClose(<<>>)

(* the scopes a trace opened less those it closed *)
OpenedLess(tr) ==
  Cardinality({k \in 1..Len(tr) : tr[k].op \in {"pushcontext", "open"}})
    - Cardinality({k \in 1..Len(tr) : tr[k].op \in {"popcontext", "close"}})

Enters(msgs) == Count(msgs, "context_enter") + Count(msgs, "open_enter")
Exits(msgs) == Count(msgs, "context_exit") + Count(msgs, "open_exit")

IsExit(c) == c.cmd \in {"context_exit", "open_exit"}

(* what a step does in the state in which replay has raised *)
C16_FailedStep ==
  rstate = "failed" =>
    /\ rstate' # "done"
    /\ rstate' = "failed" => UNCHANGED <<target, rpos, messages, seen>>
    /\ rstate' = "running" => (rpos' = 1 /\ target' = <<>>)

(* C16: replay onto a capturing backend raises at an exit command whose    *)
(* scope is not the innermost open one of the commands before it, and at   *)
(* no other command; the target has then observed the commands before it   *)
(* and nothing of that command or of those after it; replay does not go    *)
(* on from there, and the recording is as it was.                          *)
C16_IllNestedReplay ==
  /\ []((rkind = "capture" /\ rstate \in {"running", "done"})
          => WellNested(SubSeq(messages, 1, rpos - 1)))
  /\ []((rkind = "capture" /\ rstate = "failed")
          => /\ IsExit(messages[rpos - 1])
             /\ WellNested(SubSeq(messages, 1, rpos - 2))
             /\ ~WellNested(SubSeq(messages, 1, rpos - 1))
             /\ target = IssuedAll(SubSeq(messages, 1, rpos - 2)))
  /\ [][C16_FailedStep]_vars
  /\ [][(rkind = "capture" /\ rstate = "running")
          => UNCHANGED <<messages, seen>>]_vars

(* replay raised at a popcontext that had no pushcontext, after a write    *)
(* it had issued and before a write it then never issued                   *)
C16_Witness ==
  /\ rkind = "capture" /\ rstate = "failed"
  /\ Len(messages) >= 3 /\ rpos = 3
  /\ messages[2].cmd = "context_exit" /\ messages[3].cmd = "write"
  /\ target = <<ObsWrite("start", 1)>>

(* no block of a file scope of the session raised *)
NoFileRaised == \A k \in 1..Len(direct) : direct[k].how # "raised"

C20_SelfReplay ==
  /\ [][(rkind = "self" /\ rstate = "running" /\ messages # <<>>)
          => (rstate' = "running" /\ Len(messages') = Len(messages) + 1)]_vars
  /\ [][(rkind = "capture" /\ rstate = "running")
          => (rstate' \in {"running", "done"} /\ UNCHANGED messages)]_vars
  /\ (rkind = "capture" /\ rstate = "running")
       ~> (rkind = "capture" /\ rstate = "done" /\ rpos = Len(messages) + 1)

(* what a step of a replay of a well-nested recording does *)
C20_Step ==
  /\ (rkind = "self" /\ rstate = "running" /\ messages # <<>>
        /\ WellNested(messages))
       => /\ rstate' = "running" /\ rpos' = rpos + 1
          /\ Len(messages') = Len(messages) + 1
          /\ Last(messages').cmd = messages[rpos].cmd
  /\ (rkind = "capture" /\ rstate = "running" /\ WellNested(messages))
       => /\ UNCHANGED messages
          /\ \/ rstate' = "running" /\ rpos' = rpos + 1
             \/ rstate' = "done" /\ rpos' = rpos /\ rpos = Len(messages) + 1

(* C20, amended: a replay of a RecordLog whose command sequence is         *)
(* well-nested and not empty onto itself never returns, each command it    *)
(* processes appending one to the sequence it iterates over; a replay of a *)
(* well-nested recording onto another target processes each command once   *)
(* and returns; of a sequence that is not well-nested either replay raises *)
(* at the first exit without its scope.                                    *)
C20_SelfReplayAmended ==
  /\ [][C20_Step]_vars
  /\ []((rkind = "self" /\ rstate = "running" /\ messages # <<>>
           /\ WellNested(messages)) => rpos <= Len(messages))
  /\ []((rkind = "self" /\ rstate = "done") => messages = <<>>)
  /\ []((rkind = "self" /\ rstate = "failed")
          => ~WellNested(SubSeq(messages, 1, rpos - 1)))
  /\ (rkind = "capture" /\ rstate = "running" /\ WellNested(messages))
       ~> (rkind = "capture" /\ rstate = "done" /\ rpos = Len(messages) + 1)
  /\ (rkind = "capture" /\ rstate = "running" /\ ~WellNested(messages))
       ~> (rkind = "capture" /\ rstate = "failed")

(* a replay of a recording of three commands, a popcontext among them,     *)
(* onto itself is processing commands that it appended itself              *)
C20_Witness ==
  /\ rkind = "self" /\ rstate = "running" /\ WellNested(messages)
  /\ Len(messages) = 3 + (rpos - 1) /\ rpos > 4
  /\ Count(messages, "context_exit") >= 2

====
